---------------------------- MODULE Spec2Model ----------------------------
(***************************************************************************)
(* A model of align.py (CogDetect): the PMI estimator calc_pmi, the online *)
(* scorer OnlinePMIIterator, the grouped lookup MinPairDict, the guide-tree*)
(* aligner multi_align and the script's argument handling.                 *)
(*                                                                         *)
(* Real-valued scores are kept in fixed point, in thousandths (Scale):     *)
(* -1.75 is -1750, np.log is the table LnTab, the step size                *)
(* (n_updates + 2) ** (-alpha) is the table EtaTab.  The margin multiplier *)
(* is kept in hundredths (0.79 is 79).                                     *)
(***************************************************************************)
EXTENDS Integers, Sequences, FiniteSets, TLC

(***************************************************************************)
(* Bounds of the model.                                                    *)
(***************************************************************************)
\* calls of align_pairs / update_pmi_dict made on one scorer
MaxCalls == 2
\* alignments handed to one direct call of update_pmi_dict
MaxBatch == 1
\* columns of one alignment handed to a direct call of update_pmi_dict
MaxAlnLen == 2
\* word pairs handed to one call of align_pairs
MaxPairs == 3
\* symbols of one word form
MaxWordLen == 1
\* greatest weight in the scores handed to a direct call of update_pmi_dict
MaxWeight == 2
\* symbols in a tuple given as one side of a MinPairDict key
MaxGroup == 2
\* symbols of one form of a cognate group
MaxFormLen == 1
\* forms handed to multi_align on one guide tree, over all invocations
MaxForms == 3
\* cognate groups handed to one invocation of multi_align
MaxSets == 2
\* invocations of multi_align on one guide tree
MaxInvocations == 2
\* pairs of forms in the data the script reads
MaxData == 2
\* greatest --max-batch
MaxBatchArg == 2
\* --max-iter
MaxIter == 2
\* pairs in the collection a batch loop starts on
MaxColl == 3

(***************************************************************************)
(* Values and small helpers.                                               *)
(***************************************************************************)
Scale == 1000
Sym == {"a", "b"}
\* the empty symbol '' that stands for a gap in an alignment column
Gap == ""
\* gep=-1.75 and the fallback of pmidict.get((x, ''), -1.75)
Gep == -1750

SeqsUpTo(S, n) == UNION {[1..k -> S] : k \in 0..n}
NonEmptySeqsUpTo(S, n) == UNION {[1..k -> S] : k \in 1..n}

MaxOf(a, b) == IF a >= b THEN a ELSE b
MinOf(a, b) == IF a <= b THEN a ELSE b

RECURSIVE SumSeq(_)
SumSeq(s) == IF s = <<>> THEN 0 ELSE Head(s) + SumSeq(Tail(s))

\* dict.get(key, default)
DictGet(d, key, default) == IF key \in DOMAIN d THEN d[key] ELSE default

\* {} : the dictionary without keys
EmptyDict == [k \in {} |-> 0]

\* a pop that drops the last element whatever the index (used to seed a
\* fault)
ListPopLast(l, i) == SubSeq(l, 1, Len(l) - 1)

\* list.pop(i) seen from the list: the list without its element i (1-based)
ListPop(l, i) == [j \in 1..(Len(l) - 1) |-> IF j < i THEN l[j] ELSE l[j + 1]]

(***************************************************************************)
(* np.log in thousandths, for the integer counts calc_pmi accumulates.     *)
(***************************************************************************)
LnTab ==
  << 0, 693, 1099, 1386, 1609, 1792, 1946, 2079, 2197, 2303, 2398, 2485,
     2565, 2639, 2708, 2773, 2833, 2890, 2944, 2996, 3045, 3091, 3135, 3178,
     3219, 3258, 3296, 3332, 3367, 3401, 3434, 3466, 3497, 3526, 3555, 3584,
     3611, 3638, 3664, 3689, 3714, 3738, 3761, 3784, 3807, 3829, 3850, 3871,
     3892, 3912, 3932, 3951, 3970, 3989, 4007, 4025, 4043, 4060, 4078, 4094,
     4111, 4127, 4143, 4159, 4174, 4190, 4205, 4220, 4234, 4248, 4263, 4277,
     4290, 4304, 4317, 4331, 4344, 4357, 4369, 4382, 4394, 4407, 4419, 4431,
     4443, 4454, 4466, 4477, 4489, 4500, 4511, 4522, 4533, 4543, 4554, 4564 >>

Ln(n) == LnTab[n]

(***************************************************************************)
(* (n_updates + 2) ** (-alpha) in thousandths; alpha in thousandths.       *)
(* EtaTab[alpha][k + 1] is the step size after k counted updates.          *)
(***************************************************************************)
Alphas == {600, 750, 1000}
\* alpha=0.75, the default of the constructor and of --alpha
AlphaDefault == 750

EtaTab ==
  [a \in Alphas |->
     CASE a = 600  -> << 660, 517, 435, 381, 341, 311, 287, 268 >>
       [] a = 750  -> << 595, 439, 354, 299, 261, 232, 210, 192 >>
       [] a = 1000 -> << 500, 333, 250, 200, 167, 143, 125, 111 >>]

Eta(n, a) == EtaTab[a][n + 1]

(***************************************************************************)
(* calc_pmi(alignments, scores).  An alignment is a sequence of columns    *)
(* <<a1, a2>>.  scores is NoScores (Python's scores=None, which calc_pmi   *)
(* turns into it.cycle([1])) or a sequence of weights.                     *)
(***************************************************************************)
NoScores == [given |-> FALSE, w |-> <<>>]
GivenScores(ws) == [given |-> TRUE, w |-> ws]

\* zip(alignments, scores) stops at the shorter of the two
ZipLen(alignments, scores) ==
  IF scores.given THEN MinOf(Len(alignments), Len(scores.w)) ELSE Len(alignments)

ZipWeight(scores, i) == IF scores.given THEN scores.w[i] ELSE 1

\* what one column adds to count_dict[key]: count_dict[a1, a2] += 1.0*score
\* and count_dict[a2, a1] += 1.0*score, per unit of score
ColCount(col, key) ==
  (IF <<col[1], col[2]>> = key THEN 1 ELSE 0)
    + (IF <<col[2], col[1]>> = key THEN 1 ELSE 0)

\* what one column adds to sound_dict[x]: sound_dict[a1] += 2.0*score and
\* sound_dict[a2] += 2.0*score, per unit of score
ColSound(col, x) == (IF col[1] = x THEN 2 ELSE 0) + (IF col[2] = x THEN 2 ELSE 0)

\* the accumulated count_dict[key] after the loop over zip(alignments, scores)
CountDict(alignments, scores, key) ==
  SumSeq([i \in 1..ZipLen(alignments, scores) |->
            ZipWeight(scores, i)
              * SumSeq([j \in 1..Len(alignments[i]) |->
                          ColCount(alignments[i][j], key)])])

\* the accumulated sound_dict[x]
SoundDict(alignments, scores, x) ==
  SumSeq([i \in 1..ZipLen(alignments, scores) |->
            ZipWeight(scores, i)
              * SumSeq([j \in 1..Len(alignments[i]) |->
                          ColSound(alignments[i][j], x)])])

\* count_dict.keys(): both orderings of every column seen
PmiKeys(alignments, scores) ==
  UNION {UNION {{<<alignments[i][j][1], alignments[i][j][2]>>,
                 <<alignments[i][j][2], alignments[i][j][1]>>} :
                  j \in 1..Len(alignments[i])} :
           i \in 1..ZipLen(alignments, scores)}

\* sound_dict.keys()
SoundKeys(alignments, scores) == {k[1] : k \in PmiKeys(alignments, scores)}

RECURSIVE SumOver(_, _)
SumOver(S, f) ==
  IF S = {} THEN 0
  ELSE LET x == CHOOSE y \in S : TRUE IN f[x] + SumOver(S \ {x}, f)

\* log_weight = 2 * np.log(sum(sound_dict.values()))
\*                - np.log(sum(count_dict.values()))
LogWeight(sound_dict, count_dict) ==
  2 * Ln(SumOver(DOMAIN sound_dict, sound_dict))
    - Ln(SumOver(DOMAIN count_dict, count_dict))

\* a variant that reads the first marginal twice (used to seed a fault)
PmiValFirstOnly(m, s1, s2, log_weight) == Ln(m) - (Ln(s1) + Ln(s1)) + log_weight

\* num = np.log(m); denom = np.log(sound_dict[c1]) + np.log(sound_dict[c2]);
\* val = num - denom + log_weight
PmiVal(m, s1, s2, log_weight) == Ln(m) - (Ln(s1) + Ln(s2)) + log_weight

\* the dictionary calc_pmi returns; with no column at all the second loop
\* has nothing to visit and the dictionary is empty
calc_pmi(alignments, scores) ==
  LET count_dict == [k \in PmiKeys(alignments, scores) |->
                       CountDict(alignments, scores, k)]
      sound_dict == [x \in SoundKeys(alignments, scores) |->
                       SoundDict(alignments, scores, x)]
      log_weight == LogWeight(sound_dict, count_dict)
  IN [k \in DOMAIN count_dict |->
        PmiVal(count_dict[k], sound_dict[k[1]], sound_dict[k[2]], log_weight)]

(***************************************************************************)
(* The Pairwise Aligner, distances.needleman_wunsch, called with gop=None: *)
(* a global alignment that maximises the sum of the column scores, where a *)
(* column pairing x[i] with y[j] scores sub[i][j], a column pairing x[i]   *)
(* with a gap scores gx[i] and a column pairing a gap with y[j] scores     *)
(* gy[j].  The three score tables are what the caller's lodict (with its   *)
(* fallback) gives for the elements of x and y.  The alignment is a        *)
(* sequence of index pairs <<i, j>>, 0 standing for the gap; among equally *)
(* good alignments the one that prefers a match, then a gap in y, then a   *)
(* gap in x, at the earliest column is returned.                           *)
(***************************************************************************)
NWExtend(move, sc, rest) == [s |-> sc + rest.s, alg |-> <<move>> \o rest.alg]

\* the earlier candidate wins a tie
NWBetter(p, q) == IF q.s > p.s THEN q ELSE p

RECURSIVE NWFrom(_, _, _, _, _, _, _)
NWFrom(n, m, sub, gx, gy, i, j) ==
  IF i > n /\ j > m THEN [s |-> 0, alg |-> <<>>]
  ELSE IF j > m THEN NWExtend(<<i, 0>>, gx[i], NWFrom(n, m, sub, gx, gy, i + 1, j))
  ELSE IF i > n THEN NWExtend(<<0, j>>, gy[j], NWFrom(n, m, sub, gx, gy, i, j + 1))
  ELSE NWBetter(
         NWBetter(
           NWExtend(<<i, j>>, sub[i][j], NWFrom(n, m, sub, gx, gy, i + 1, j + 1)),
           NWExtend(<<i, 0>>, gx[i], NWFrom(n, m, sub, gx, gy, i + 1, j))),
         NWExtend(<<0, j>>, gy[j], NWFrom(n, m, sub, gx, gy, i, j + 1)))

\* [s |-> the alignment score, alg |-> the index pairs of the columns]
NWIndexed(n, m, sub, gx, gy) == NWFrom(n, m, sub, gx, gy, 1, 1)

\* needleman_wunsch(w1, w2, gop=None, gep=-1.75, lodict=pmidict) on two
\* sequences of symbols: every score is lodict.get(pair, -1.75); the columns
\* come back as pairs of symbols, a gap shown as the empty symbol
needleman_wunsch(w1, w2, lodict) ==
  LET r == NWIndexed(
             Len(w1), Len(w2),
             [i \in 1..Len(w1) |-> [j \in 1..Len(w2) |->
                DictGet(lodict, <<w1[i], w2[j]>>, Gep)]],
             [i \in 1..Len(w1) |-> DictGet(lodict, <<w1[i], Gap>>, Gep)],
             [j \in 1..Len(w2) |-> DictGet(lodict, <<Gap, w2[j]>>, Gep)])
  IN [s |-> r.s,
      alg |-> [c \in 1..Len(r.alg) |->
                 << IF r.alg[c][1] = 0 THEN Gap ELSE w1[r.alg[c][1]],
                    IF r.alg[c][2] = 0 THEN Gap ELSE w2[r.alg[c][2]] >>]]

(***************************************************************************)
(* OnlinePMIIterator.  A word pair is <<<<c1, l1, w1>>, <<c2, l2, w2>>>>.  *)
(***************************************************************************)
\* margin = max(sum([pmidict.get((x, ''), -1.75) for x in w1]) + len(w1),
\*              sum([pmidict.get(('', x), -1.75) for x in w2]) + len(w2))
AllGapMargin(lodict, w1, w2) ==
  MaxOf(SumSeq([i \in 1..Len(w1) |-> DictGet(lodict, <<w1[i], Gap>>, Gep)])
          + Scale * Len(w1),
        SumSeq([i \in 1..Len(w2) |-> DictGet(lodict, <<Gap, w2[i]>>, Gep)])
          + Scale * Len(w2))

\* if self.margin * s < margin  (self.margin in hundredths)
Discarded(mult, s, margin) == mult * s < 100 * margin

\* the loop of align_pairs, at index w (1-based here), going down to the
\* first pair; st holds word_pairs, algn_list, scores and n_zero.  The code
\* reads the pair from the script's list wl, which is the list the script
\* passes as word_pairs.
RECURSIVE AlignLoop(_, _, _, _)
AlignLoop(w, st, lodict, mult) ==
  IF w = 0 THEN st
  ELSE LET pair == st.word_pairs[w]
           r == needleman_wunsch(pair[1][3], pair[2][3], lodict)
       IN IF Discarded(mult, r.s, AllGapMargin(lodict, pair[1][3], pair[2][3]))
          THEN AlignLoop(w - 1,
                         [st EXCEPT !.n_zero = @ + 1,
                                    !.word_pairs = ListPop(@, w)],
                         lodict, mult)
          ELSE AlignLoop(w - 1,
                         [st EXCEPT !.algn_list = Append(@, r.alg),
                                    !.scores = Append(@, r.s)],
                         lodict, mult)

\* a step that fades every entry the batch does not mention (used to seed a
\* fault)
BlendAll(eta, fresh, old, k) ==
  (eta * DictGet(fresh, k, 0) + (Scale - eta) * DictGet(old, k, 0)) \div Scale

\* self.pmidict[k] = (eta * v) + ((1.0 - eta) * pmidict_val) for the keys of
\* the fresh dictionary; every other key keeps its value
Blend(eta, fresh, old, k) ==
  IF k \in DOMAIN fresh
  THEN (eta * fresh[k] + (Scale - eta) * DictGet(old, k, 0)) \div Scale
  ELSE old[k]

\* the dictionary self.pmidict after update_pmi_dict(algn_list, scores)
UpdatedPmiDict(lodict, updates, a, algn_list, scores) ==
  LET fresh == calc_pmi(algn_list, scores)
  IN [k \in DOMAIN lodict \cup DOMAIN fresh |->
        Blend(Eta(updates, a), fresh, lodict, k)]

\* self.n_updates after update_pmi_dict: the method does not assign it
UpdatedCounter(updates) == updates

(***************************************************************************)
(* MinPairDict.  One side of a key is a single symbol or a tuple of        *)
(* symbols: [tuple |-> FALSE, v |-> symbol] or [tuple |-> TRUE, v |-> the  *)
(* tuple].  A lookup ends with a value, with -inf, with None or with a     *)
(* KeyError.                                                               *)
(***************************************************************************)
SymKey(x) == [tuple |-> FALSE, v |-> x]
TupleKey(t) == [tuple |-> TRUE, v |-> t]

\* if type(key) != tuple: key = [key]
KeyList(side) == IF side.tuple THEN side.v ELSE <<side.v>>

NegInf == [kind |-> "neg_inf", v |-> 0]
Value(n) == [kind |-> "value", v |-> n]
KeyError == [kind |-> "KeyError", v |-> 0]
ReturnsNone == [kind |-> "None", v |-> 0]

\* for k2 in key2: v = dict.__getitem__(self, (k1, k2)); if v > max_val:
\* max_val = v -- from element j of key2 on, with max_val so far
RECURSIVE InnerLoop(_, _, _, _, _)
InnerLoop(d, k1, key2, j, max_val) ==
  IF j > Len(key2) THEN max_val
  ELSE IF <<k1, key2[j]>> \notin DOMAIN d THEN KeyError
  ELSE InnerLoop(d, k1, key2, j + 1,
                 IF max_val.kind = "neg_inf" \/ d[<<k1, key2[j]>>] > max_val.v
                 THEN Value(d[<<k1, key2[j]>>])
                 ELSE max_val)

\* for k1 in key1: <the loop over key2>; return max_val -- the return
\* statement is in the body of the loop over key1, so the first pass over
\* key2 ends the method; with no element in key1 the method returns None
OuterLoop(d, key1, key2, i, max_val) ==
  IF i > Len(key1) THEN ReturnsNone
  ELSE InnerLoop(d, key1[i], key2, 1, max_val)

\* MinPairDict.__getitem__(self, (key1, key2))
MinPairDict_getitem(d, side1, side2) ==
  OuterLoop(d, KeyList(side1), KeyList(side2), 1, NegInf)

\* MinPairDict.get(self, key, default): try: return self[key]
\* except KeyError: return default
MinPairDict_get(d, side1, side2, default) ==
  IF MinPairDict_getitem(d, side1, side2).kind = "KeyError"
  THEN Value(default)
  ELSE MinPairDict_getitem(d, side1, side2)

(***************************************************************************)
(* multi_align.  A guide tree is [root, name, descendants] over numbered   *)
(* nodes.  The attributes the function attaches to nodes are kept in two   *)
(* maps from the nodes that have the attribute: forms (node.forms) and     *)
(* alignment (node.alignment).  A cognate group is a sequence of triples   *)
(* <<language, concept, form>>, in the order the loop visits them.  An     *)
(* entry is [languages, concepts, alignment], the alignment a sequence of  *)
(* columns, each a tuple of symbols.                                       *)
(***************************************************************************)
RECURSIVE Postorder(_, _)
RECURSIVE PostorderAll(_, _, _)
\* guide_tree.walk('postorder') from node n
Postorder(tree, n) == PostorderAll(tree, tree.descendants[n], 1) \o <<n>>
PostorderAll(tree, children, i) ==
  IF i > Len(children) THEN <<>>
  ELSE Postorder(tree, children[i]) \o PostorderAll(tree, children, i + 1)

IsLeaf(tree, n) == tree.descendants[n] = <<>>

\* guide_tree.get_leaves()
GetLeaves(tree) == SelectSeq(Postorder(tree, tree.root), LAMBDA n : IsLeaf(tree, n))

\* languages = {leaf.name: leaf for leaf in guide_tree.get_leaves()}: a
\* later leaf replaces an earlier one of the same name
LanguagesDict(tree) ==
  LET leaves == GetLeaves(tree)
  IN [nm \in {tree.name[leaves[i]] : i \in 1..Len(leaves)} |->
        leaves[CHOOSE i \in 1..Len(leaves) :
                 /\ tree.name[leaves[i]] = nm
                 /\ \A j \in (i + 1)..Len(leaves) : tree.name[leaves[j]] # nm]]

\* ((language,), (concept,), tuple((x,) for x in form))
SeedEntry(triple) ==
  [languages |-> <<triple[1]>>, concepts |-> <<triple[2]>>,
   alignment |-> [i \in 1..Len(triple[3]) |-> <<triple[3][i]>>]]

\* the entries the seeding loop appends to leaf.forms[s] for group s (counted
\* from 0, as enumerate does): one per triple of the group whose language
\* names this leaf, in the order of the group; a triple whose language names
\* no leaf is skipped (except KeyError: continue)
RECURSIVE SeedFrom(_, _, _, _)
SeedFrom(languages, group, leaf, i) ==
  IF i > Len(group) THEN <<>>
  ELSE (IF group[i][1] \in DOMAIN languages /\ languages[group[i][1]] = leaf
        THEN <<SeedEntry(group[i])>> ELSE <<>>)
         \o SeedFrom(languages, group, leaf, i + 1)

\* leaf.forms.setdefault(s, []).append(entry): the list under s after the
\* loop is what it held before followed by the new entries
SeedAppend(old, new) == old \o new

\* the map of the forms attributes after the seeding loops: a leaf gets the
\* attribute (leaf.forms = {}) with its first entry and keeps what an earlier
\* invocation left in it
SeededForms(tree, forms, similarity_sets) ==
  LET languages == LanguagesDict(tree)
      new(n, s) == SeedFrom(languages, similarity_sets[s + 1], n, 1)
      groups(n) == {s \in 0..(Len(similarity_sets) - 1) : new(n, s) # <<>>}
      leaves == GetLeaves(tree)
  IN [n \in DOMAIN forms \cup {leaves[i] : i \in {k \in 1..Len(leaves) :
                                                   groups(leaves[k]) # {}}} |->
        LET old == IF n \in DOMAIN forms THEN forms[n] ELSE EmptyDict
        IN [s \in DOMAIN old \cup groups(n) |->
              SeedAppend(DictGet(old, s, <<>>),
                         IF s \in groups(n) THEN new(n, s) ELSE <<>>)]]

\* a gap column one symbol wide, whatever the width asked for (used to seed
\* a fault)
GapColumnOne(width) == <<Gap>>

\* ('',) * width
GapColumn(width) == [k \in 1..width |-> Gap]

\* pairwise(already_aligned, new_alignment, lodict=MinPairDict(...),
\* gop=None, gep=-1.75): the aligner on two profiles, every score read with
\* lodict.get(key, -1.75), the key made of two columns or of a column and ''
ProfileAlign(x, y, d) ==
  NWIndexed(
    Len(x), Len(y),
    [i \in 1..Len(x) |-> [j \in 1..Len(y) |->
       MinPairDict_get(d, TupleKey(x[i]), TupleKey(y[j]), Gep).v]],
    [i \in 1..Len(x) |-> MinPairDict_get(d, TupleKey(x[i]), SymKey(Gap), Gep).v],
    [j \in 1..Len(y) |-> MinPairDict_get(d, SymKey(Gap), TupleKey(y[j]), Gep).v])

\* one pass of the loop over forms: st is (languages, concepts,
\* already_aligned), already_aligned empty standing for None too, since the
\* code tests `not already_aligned`
MergeStep(st, entry, d) ==
  IF st.alignment = <<>>
  THEN [languages |-> entry.languages, concepts |-> entry.concepts,
        alignment |-> entry.alignment]
  ELSE LET gap1 == GapColumn(Len(st.languages))
           gap2 == GapColumn(Len(entry.alignment[1]))
           combined == ProfileAlign(st.alignment, entry.alignment, d).alg
       IN [languages |-> st.languages \o entry.languages,
           concepts |-> st.concepts \o entry.concepts,
           alignment |->
             [c \in 1..Len(combined) |->
                (IF combined[c][1] = 0 THEN gap1 ELSE st.alignment[combined[c][1]])
                  \o (IF combined[c][2] = 0 THEN gap2
                      ELSE entry.alignment[combined[c][2]])]]

RECURSIVE MergeForms(_, _, _, _)
MergeForms(entries, i, st, d) ==
  IF i > Len(entries) THEN st
  ELSE MergeForms(entries, i + 1, MergeStep(st, entries[i], d), d)

NothingAligned == [languages |-> <<>>, concepts |-> <<>>, alignment |-> <<>>]

\* the alignments of the children for one group, in the order of the children
RECURSIVE ChildEntries(_, _, _, _)
ChildEntries(children, alignment, group, i) ==
  IF i > Len(children) THEN <<>>
  ELSE (IF children[i] \in DOMAIN alignment
          /\ group \in DOMAIN alignment[children[i]]
        THEN <<alignment[children[i]][group]>> ELSE <<>>)
         \o ChildEntries(children, alignment, group, i + 1)

\* entries_by_group = node.forms, or, for a node without that attribute,
\* what its children's alignment attributes hold
EntriesByGroup(tree, node, forms, alignment) ==
  IF node \in DOMAIN forms THEN forms[node]
  ELSE LET children == tree.descendants[node]
       IN [g \in UNION {DOMAIN alignment[children[i]] :
                          i \in {k \in 1..Len(children) :
                                   children[k] \in DOMAIN alignment}} |->
             ChildEntries(children, alignment, g, 1)]

\* the loop over guide_tree.walk('postorder') from position i of the walk;
\* st holds the alignment attributes and the number of calls of the aligner
RECURSIVE WalkFrom(_, _, _, _, _, _)
WalkFrom(tree, walk, i, forms, st, d) ==
  IF i > Len(walk) THEN st
  ELSE LET node == walk[i]
           entries_by_group == EntriesByGroup(tree, node, forms, st.alignment)
           aligned_groups ==
             [g \in DOMAIN entries_by_group |->
                MergeForms(entries_by_group[g], 1, NothingAligned, d)]
       IN WalkFrom(tree, walk, i + 1, forms,
                   [alignment |->
                      [n \in DOMAIN st.alignment \cup {node} |->
                         IF n = node THEN aligned_groups ELSE st.alignment[n]],
                    pairwise_calls |->
                      st.pairwise_calls
                        + SumOver(DOMAIN entries_by_group,
                                  [g \in DOMAIN entries_by_group |->
                                     Len(entries_by_group[g]) - 1])],
                   d)

\* multi_align(similarity_sets, guide_tree, lodict=d, gop=None, gep=-1.75)
\* on a tree whose nodes carry the attributes forms and alignment: the
\* attributes it leaves, what it returns (the alignment attribute of the last
\* node of the walk, the root) and how often it called the aligner
multi_align(similarity_sets, tree, forms, alignment, d) ==
  LET seeded == SeededForms(tree, forms, similarity_sets)
      st == WalkFrom(tree, Postorder(tree, tree.root), 1, seeded,
                     [alignment |-> alignment, pairwise_calls |-> 0], d)
  IN [forms |-> seeded, alignment |-> st.alignment,
      ret |-> st.alignment[tree.root], pairwise_calls |-> st.pairwise_calls]

(***************************************************************************)
(* State.                                                                  *)
(***************************************************************************)
VARIABLES
  \* the OnlinePMIIterator: self.margin (hundredths), self.alpha
  \* (thousandths), self.n_updates, self.pmidict
  margin, alpha, n_updates, pmidict,
  \* the caller's list handed to align_pairs, as the call leaves it
  wl,
  \* what the last call of align_pairs returned: algn_list and n_zero
  ret,
  \* history: the number of update_pmi_dict executions so far, and the last
  \* call (its name, the table when it started, the word pairs and the
  \* alignments it was given, the step size eta it computed)
  calls, call,
  \* a MinPairDict and the last lookup made in it
  lk,
  \* the guide tree, the attributes forms and alignment of its nodes, the
  \* table handed to multi_align as a MinPairDict
  guide_tree, node_forms, node_alignment, mpd,
  \* history: the invocations of multi_align on the tree (how many, the
  \* forms handed over so far, the groups and the result of the last one)
  mcall,
  \* the script: where it is, its arguments, its lists and counters
  pc, args, data_pairs, word_pairs, idx, n_iter,
  \* history of the script: whether the reader has run, how many word pairs
  \* have been handed to the aligner
  input_read, aligned

scorerVars == <<margin, alpha, n_updates, pmidict, wl, ret, calls, call>>
multiVars == <<guide_tree, node_forms, node_alignment, mpd, mcall>>
mainVars == <<pc, args, data_pairs, word_pairs, idx, n_iter, input_read, aligned>>

vars == <<scorerVars, lk, multiVars, mainVars>>

(***************************************************************************)
(* The online scorer, called in any order.                                 *)
(***************************************************************************)
Columns == ((Sym \cup {Gap}) \X (Sym \cup {Gap})) \ {<<Gap, Gap>>}
Alignments == SeqsUpTo(Columns, MaxAlnLen)
\* the readers drop empty forms, so a word form has at least one symbol
Forms == NonEmptySeqsUpTo(Sym, MaxWordLen)
WordPairs == {<< <<"c", "A", w1>>, <<"c", "B", w2>> >> : w1 \in Forms, w2 \in Forms}
ScoreArgs(algn_list) ==
  {NoScores} \cup {GivenScores(ws) : ws \in [1..Len(algn_list) -> 1..MaxWeight]}
\* margin=1 is the constructor's default, margin=0.79 what the script passes
MarginDefault == 100
MarginScript == 79
Margins == {MarginScript, MarginDefault}

NoCall == [op |-> "none", pmidict |-> EmptyDict, word_pairs |-> <<>>,
           algn_list |-> <<>>, scores |-> NoScores, eta |-> 0]
NoRet == [algn_list |-> <<>>, n_zero |-> 0]

\* OnlinePMIIterator.__init__: n_updates = 0, pmidict = {}
Constructed(m, a) ==
  /\ margin = m
  /\ alpha = a
  /\ n_updates = 0
  /\ pmidict = EmptyDict
  /\ wl = <<>>
  /\ ret = NoRet
  /\ calls = 0
  /\ call = NoCall

LookupIdle == lk = [table |-> EmptyDict, op |-> "none", side1 |-> SymKey(Gap),
                    side2 |-> SymKey(Gap), result |-> ReturnsNone]

NoTree == [root |-> 1, name |-> <<"">>, descendants |-> << <<>> >>]
NoInvocation == [invocations |-> 0, used |-> 0, similarity_sets |-> <<>>,
                 ret |-> EmptyDict, pairwise_calls |-> 0]

MultiIdle ==
  /\ guide_tree = NoTree
  /\ node_forms = EmptyDict
  /\ node_alignment = EmptyDict
  /\ mpd = EmptyDict
  /\ mcall = NoInvocation

NoArgs == [alpha |-> AlphaDefault, method |-> "infomap", reader |-> "ielex",
           max_batch |-> 1]

MainIdle ==
  /\ pc = "idle"
  /\ args = NoArgs
  /\ data_pairs = <<>>
  /\ word_pairs = <<>>
  /\ idx = 0
  /\ n_iter = 0
  /\ input_read = FALSE
  /\ aligned = 0

ScorerInit ==
  /\ \E m \in Margins : Constructed(m, AlphaDefault)
  /\ LookupIdle
  /\ MultiIdle
  /\ MainIdle

\* the state align_pairs leaves: the screening loop, then
\* self.update_pmi_dict(algn_list, scores=None), then the return
AlignPairs(list) ==
  LET st == AlignLoop(Len(list),
                      [word_pairs |-> list, algn_list |-> <<>>,
                       scores |-> <<>>, n_zero |-> 0],
                      pmidict, margin)
  IN /\ pmidict' = UpdatedPmiDict(pmidict, n_updates, alpha, st.algn_list, NoScores)
     /\ n_updates' = UpdatedCounter(n_updates)
     /\ wl' = st.word_pairs
     /\ ret' = [algn_list |-> st.algn_list, n_zero |-> st.n_zero]
     /\ calls' = calls + 1
     /\ call' = [op |-> "align_pairs", pmidict |-> pmidict,
                 word_pairs |-> list, algn_list |-> st.algn_list,
                 scores |-> NoScores, eta |-> Eta(n_updates, alpha)]
     /\ UNCHANGED <<margin, alpha>>

\* update_pmi_dict(algn_list, scores), called directly
UpdatePmiDictCall ==
  \E algn_list \in SeqsUpTo(Alignments, MaxBatch) :
    \E scores \in ScoreArgs(algn_list) :
      /\ calls < MaxCalls
      /\ pmidict' = UpdatedPmiDict(pmidict, n_updates, alpha, algn_list, scores)
      /\ n_updates' = UpdatedCounter(n_updates)
      /\ calls' = calls + 1
      /\ call' = [op |-> "update_pmi_dict", pmidict |-> pmidict,
                  word_pairs |-> <<>>, algn_list |-> algn_list,
                  scores |-> scores, eta |-> Eta(n_updates, alpha)]
      /\ UNCHANGED <<margin, alpha, wl, ret, lk, multiVars, mainVars>>

\* align_pairs(word_pairs), called directly
AlignPairsCall ==
  \E list \in SeqsUpTo(WordPairs, MaxPairs) :
    /\ calls < MaxCalls
    /\ AlignPairs(list)
    /\ UNCHANGED <<lk, multiVars, mainVars>>

ScorerNext == UpdatePmiDictCall \/ AlignPairsCall

SpecScorer == ScorerInit /\ [][ScorerNext]_vars

(***************************************************************************)
(* Lookups in a MinPairDict.                                               *)
(***************************************************************************)
\* 0.2 and 0.9
ScoreVals == {200, 900}
LookupTables == UNION {[D -> ScoreVals] : D \in SUBSET (Sym \X Sym)}
Sides == {SymKey(x) : x \in Sym} \cup {TupleKey(t) : t \in SeqsUpTo(Sym, MaxGroup)}

LookupInit ==
  /\ \E t \in LookupTables :
       lk = [table |-> t, op |-> "none", side1 |-> SymKey(Gap),
             side2 |-> SymKey(Gap), result |-> ReturnsNone]
  /\ Constructed(MarginDefault, AlphaDefault)
  /\ MultiIdle
  /\ MainIdle

\* d[key1, key2]; a lookup leaves the dictionary as it is, so one lookup
\* is followed per dictionary
GetitemCall ==
  \E side1 \in Sides, side2 \in Sides :
    /\ lk.op = "none"
    /\ lk' = [lk EXCEPT !.op = "getitem", !.side1 = side1, !.side2 = side2,
                        !.result = MinPairDict_getitem(lk.table, side1, side2)]
    /\ UNCHANGED <<scorerVars, multiVars, mainVars>>

\* d.get((key1, key2), -1.75)
GetCall ==
  \E side1 \in Sides, side2 \in Sides :
    /\ lk.op = "none"
    /\ lk' = [lk EXCEPT !.op = "get", !.side1 = side1, !.side2 = side2,
                        !.result = MinPairDict_get(lk.table, side1, side2, Gep)]
    /\ UNCHANGED <<scorerVars, multiVars, mainVars>>

LookupNext == GetitemCall \/ GetCall

SpecLookup == LookupInit /\ [][LookupNext]_vars

(***************************************************************************)
(* multi_align, invoked on one guide tree.                                 *)
(***************************************************************************)
\* (A,B);
TreePair ==
  [root |-> 1, name |-> <<"", "A", "B">>,
   descendants |-> << <<2, 3>>, <<>>, <<>> >>]
\* ((A,B),C);
TreeNested ==
  [root |-> 1, name |-> <<"", "", "A", "B", "C">>,
   descendants |-> << <<2, 5>>, <<3, 4>>, <<>>, <<>>, <<>> >>]
\* (A,B,C);
TreeFlat ==
  [root |-> 1, name |-> <<"", "A", "B", "C">>,
   descendants |-> << <<2, 3, 4>>, <<>>, <<>>, <<>> >>]
Trees == {TreePair, TreeNested, TreeFlat}

Langs == {"A", "B", "C"}
Concepts == {"c"}
Triples == Langs \X Concepts \X NonEmptySeqsUpTo(Sym, MaxFormLen)

\* a table an update has filled, with scores for gaps above the fallback
WarmTable ==
  UpdatedPmiDict(EmptyDict, 0, AlphaDefault,
                 << << <<"a", "a">>, <<"b", "b">>, <<"a", Gap>>, <<Gap, "b">> >> >>,
                 NoScores)
MultiTables == {EmptyDict, WarmTable}

\* the lists of at most n groups that hold at most budget triples in all
RECURSIVE SimilaritySets(_, _)
SimilaritySets(budget, n) ==
  IF n = 0 THEN {<<>>}
  ELSE {<<>>} \cup
       UNION {{<<g>> \o rest : rest \in SimilaritySets(budget - Len(g), n - 1)} :
                g \in SeqsUpTo(Triples, budget)}

MultiInit ==
  /\ guide_tree \in Trees
  /\ mpd \in MultiTables
  /\ node_forms = EmptyDict
  /\ node_alignment = EmptyDict
  /\ mcall = NoInvocation
  /\ Constructed(MarginDefault, AlphaDefault)
  /\ LookupIdle
  /\ MainIdle

\* multi_align(similarity_sets, guide_tree, lodict=MinPairDict(mpd),
\* gop=None, gep=-1.75)
MultiAlignCall ==
  \E similarity_sets \in SimilaritySets(MaxForms - mcall.used, MaxSets) :
    LET r == multi_align(similarity_sets, guide_tree, node_forms, node_alignment, mpd)
    IN /\ mcall.invocations < MaxInvocations
       /\ node_forms' = r.forms
       /\ node_alignment' = r.alignment
       /\ mcall' = [invocations |-> mcall.invocations + 1,
                    used |-> mcall.used
                               + SumSeq([i \in 1..Len(similarity_sets) |->
                                           Len(similarity_sets[i])]),
                    similarity_sets |-> similarity_sets,
                    ret |-> r.ret,
                    pairwise_calls |-> r.pairwise_calls]
       /\ UNCHANGED <<guide_tree, mpd, scorerVars, lk, mainVars>>

MultiNext == MultiAlignCall

SpecMulti == MultiInit /\ [][MultiNext]_vars

(***************************************************************************)
(* The script (the block under if __name__ == "__main__").                 *)
(***************************************************************************)
\* readers = {"ielex": ..., "cldf": ..., "lingpy": ...}
Readers == {"ielex", "cldf", "lingpy"}
\* the names the clustering dispatch knows
Methods == {"infomap", "labelprop", "ebet", "multilevel", "spinglass"}
\* --margin, default 1.0
MarginArg == 1000

ArgSets ==
  [alpha : {400, 500, 600, AlphaDefault, 1000, 1500},
   method : Methods \cup {"bogus"},
   reader : Readers \cup {"bogus"},
   max_batch : 1..MaxBatchArg]

MainInit ==
  /\ pc = "parse"
  /\ args \in ArgSets
  /\ data_pairs = <<>>
  /\ word_pairs = <<>>
  /\ idx = 0
  /\ n_iter = 0
  /\ input_read = FALSE
  /\ aligned = 0
  /\ Constructed(MarginScript, AlphaDefault)
  /\ LookupIdle
  /\ MultiIdle

\* parser.parse_args(): --reader has choices=list(readers.keys()), so
\* another name ends the script with a usage error
ParseArgs ==
  /\ pc = "parse"
  /\ pc' = IF args.reader \in Readers THEN "check_alpha" ELSE "usage_error"
  /\ UNCHANGED <<args, data_pairs, word_pairs, idx, n_iter, input_read, aligned,
                 scorerVars, lk, multiVars>>

\* if args.alpha <= 0.5 or args.alpha > 1: raise ValueError
CheckAlpha ==
  /\ pc = "check_alpha"
  /\ pc' = IF args.alpha <= 500 \/ args.alpha > 1000
           THEN "ValueError_alpha" ELSE "read"
  /\ UNCHANGED <<args, data_pairs, word_pairs, idx, n_iter, input_read, aligned,
                 scorerVars, lk, multiVars>>

\* list is made of elements of data, each taken at most once, in any order
ShuffledSublist(list, data) ==
  \E f \in [1..Len(list) -> 1..Len(data)] :
    /\ \A i, j \in 1..Len(list) : i # j => f[i] # f[j]
    /\ \A i \in 1..Len(list) : list[i] = data[f[i]]

\* the reader runs; the pairs of forms of one concept are data_pairs; those
\* that normalized_leventsthein lets through, shuffled, are word_pairs; the
\* scorer is built with alpha=args.alpha, margin=0.79; idx = 0
ReadData ==
  /\ pc = "read"
  /\ \E data \in SeqsUpTo(WordPairs, MaxData) :
       \E list \in SeqsUpTo(WordPairs, Len(data)) :
         /\ ShuffledSublist(list, data)
         /\ data_pairs' = data
         /\ word_pairs' = list
  /\ input_read' = TRUE
  /\ alpha' = args.alpha
  /\ idx' = 0
  /\ pc' = "batch"
  /\ UNCHANGED <<args, n_iter, aligned, margin, n_updates, pmidict, wl, ret,
                 calls, call, lk, multiVars>>

\* a slice assignment that also drops the element after the slice (used to
\* seed a fault)
SliceAssignWide(list, i, n, new) ==
  SubSeq(list, 1, i) \o new \o SubSeq(list, i + n + 2, Len(list))

\* list[i:i+n] = new, seen from the list: what is before the slice, the new
\* elements, what is after the slice
SliceAssign(list, i, n, new) ==
  SubSeq(list, 1, i) \o new \o SubSeq(list, i + n + 1, Len(list))

\* one pass of `while idx < len(word_pairs)`:
\* wl = word_pairs[idx:idx+max_batch]; online.align_pairs(wl);
\* word_pairs[idx:idx+max_batch] = wl; idx += len(wl)
BatchStep ==
  /\ pc \in {"batch", "iter_batch"}
  /\ idx < Len(word_pairs)
  /\ AlignPairs(SubSeq(word_pairs, idx + 1,
                       MinOf(idx + args.max_batch, Len(word_pairs))))
  /\ word_pairs' = SliceAssign(word_pairs, idx, args.max_batch, wl')
  /\ idx' = idx + Len(wl')
  /\ aligned' = aligned + MinOf(args.max_batch, Len(word_pairs) - idx)
  /\ UNCHANGED <<pc, args, data_pairs, n_iter, input_read, lk, multiVars>>

\* s >= args.margin + args.margin * len(alg), on the table of the scorer
Rescored(pair) ==
  LET r == needleman_wunsch(pair[1][3], pair[2][3], pmidict)
  IN r.s >= MarginArg + MarginArg * Len(r.alg)

\* the first loop is over: word_pairs is rebuilt from all pairs of the data
\* that the table now scores high enough
RebuildPairs ==
  /\ pc = "batch"
  /\ idx >= Len(word_pairs)
  /\ word_pairs' = SelectSeq(data_pairs, Rescored)
  /\ aligned' = aligned + Len(data_pairs)
  /\ n_iter' = 1
  /\ pc' = "iter"
  /\ UNCHANGED <<args, data_pairs, idx, input_read, scorerVars, lk, multiVars>>

\* for n_iter in range(1, args.max_iter): random.shuffle(word_pairs); idx = 0
IterStart ==
  /\ pc = "iter"
  /\ n_iter < MaxIter
  /\ \E list \in SeqsUpTo(WordPairs, Len(word_pairs)) :
       /\ Len(list) = Len(word_pairs)
       /\ ShuffledSublist(list, word_pairs)
       /\ word_pairs' = list
  /\ idx' = 0
  /\ pc' = "iter_batch"
  /\ UNCHANGED <<args, data_pairs, n_iter, input_read, aligned, scorerVars, lk,
                 multiVars>>

\* the inner loop of an iteration is over
IterEnd ==
  /\ pc = "iter_batch"
  /\ idx >= Len(word_pairs)
  /\ n_iter' = n_iter + 1
  /\ pc' = "iter"
  /\ UNCHANGED <<args, data_pairs, word_pairs, idx, input_read, aligned,
                 scorerVars, lk, multiVars>>

\* some weakly connected component of the graph of word_pairs has more than
\* two vertices: two pairs share a form and span three forms
LargeCluster(list) ==
  \E i, j \in 1..Len(list) :
    /\ {list[i][1], list[i][2]} \cap {list[j][1], list[j][2]} # {}
    /\ Cardinality({list[i][1], list[i][2], list[j][1], list[j][2]}) > 2

\* the loop over G.clusters(igraph.WEAK): a component of at most two
\* vertices is taken as it is; for a larger one args.method is looked up and
\* `raise ValueError("Not a valid clustering algorithm")` ends the chain
Cluster ==
  /\ pc = "iter"
  /\ n_iter >= MaxIter
  /\ pc' = IF LargeCluster(word_pairs) /\ args.method \notin Methods
           THEN "ValueError_method" ELSE "done"
  /\ UNCHANGED <<args, data_pairs, word_pairs, idx, n_iter, input_read, aligned,
                 scorerVars, lk, multiVars>>

MainNext ==
  \/ ParseArgs
  \/ CheckAlpha
  \/ ReadData
  \/ BatchStep
  \/ RebuildPairs
  \/ IterStart
  \/ IterEnd
  \/ Cluster

SpecMain == MainInit /\ [][MainNext]_vars

(***************************************************************************)
(* The batch loop of the script, on a scorer whose table is empty or has   *)
(* been filled by an update: the loop runs once on the new scorer and once *)
(* per iteration on the table the earlier passes left.  data_pairs holds   *)
(* the collection as the loop found it, aligned the number of pairs handed *)
(* to align_pairs since.                                                   *)
(***************************************************************************)
BatchInit ==
  /\ pc = "scorer"
  /\ args \in {a \in ArgSets : /\ a.alpha = AlphaDefault
                               /\ a.method = "infomap"
                               /\ a.reader = "ielex"}
  /\ data_pairs = <<>>
  /\ word_pairs = <<>>
  /\ idx = 0
  /\ n_iter = 0
  /\ input_read = TRUE
  /\ aligned = 0
  /\ Constructed(MarginScript, AlphaDefault)
  /\ LookupIdle
  /\ MultiIdle

\* an update of the table before the loop starts
WarmUp ==
  /\ pc = "scorer"
  /\ calls = 0
  /\ UpdatePmiDictCall

\* random.shuffle(word_pairs); idx = 0 -- the collection is any list of pairs
LoopStart ==
  /\ pc = "scorer"
  /\ \E list \in SeqsUpTo(WordPairs, MaxColl) :
       /\ word_pairs' = list
       /\ data_pairs' = list
  /\ idx' = 0
  /\ aligned' = 0
  /\ pc' = "batch"
  /\ UNCHANGED <<args, n_iter, input_read, scorerVars, lk, multiVars>>

\* `while idx < len(word_pairs)` finds its condition false
LoopEnd ==
  /\ pc = "batch"
  /\ idx >= Len(word_pairs)
  /\ pc' = "loop_end"
  /\ UNCHANGED <<args, data_pairs, word_pairs, idx, n_iter, input_read, aligned,
                 scorerVars, lk, multiVars>>

BatchNext ==
  \/ WarmUp
  \/ LoopStart
  \/ BatchStep
  \/ LoopEnd

SpecBatch == BatchInit /\ [][BatchNext]_vars

\* WF_vars(BatchStep), with the enabling condition of BatchStep written out:
\* the pass changes calls, so it is enabled exactly when its guard holds
BatchStepFair ==
  \/ []<>(~ (pc \in {"batch", "iter_batch"} /\ idx < Len(word_pairs)))
  \/ []<><<BatchStep>>_vars

\* the loop is sequential code: once it is running, a pass that can be made
\* is made and the exit that can be taken is taken
SpecBatchFair == SpecBatch /\ BatchStepFair /\ WF_vars(LoopEnd)

(***************************************************************************)
(* Properties.                                                             *)
(***************************************************************************)
\* the pairs (x, y) with x in one side of a key and y in the other
CrossCombinations(side1, side2) ==
  {<<KeyList(side1)[i], KeyList(side2)[j]>> :
     i \in 1..Len(KeyList(side1)), j \in 1..Len(KeyList(side2))}

\* C1: for a key whose sides are a symbol or a non-empty tuple of symbols and
\* whose cross-combinations are all in the table, MinPairDict.__getitem__
\* returns the greatest table score over all the cross-combinations.
C1_GroupedLookupMax ==
  ( /\ lk.op = "getitem"
    /\ KeyList(lk.side1) # <<>>
    /\ KeyList(lk.side2) # <<>>
    /\ CrossCombinations(lk.side1, lk.side2) \subseteq DOMAIN lk.table )
  => /\ lk.result.kind = "value"
     /\ \E k \in CrossCombinations(lk.side1, lk.side2) : lk.table[k] = lk.result.v
     /\ \A k \in CrossCombinations(lk.side1, lk.side2) : lk.table[k] <= lk.result.v

\* C2: every execution of update_pmi_dict, direct or through align_pairs,
\* adds one to the update counter, so after k executions the counter is k
\* and the execution counted k (from 0) used the step size (k + 2)^(-alpha).
C2_CounterCountsUpdates ==
  /\ n_updates = calls
  /\ calls > 0 => call.eta = Eta(calls - 1, alpha)

IsSymmetric(d) ==
  \A k \in DOMAIN d : <<k[2], k[1]>> \in DOMAIN d /\ d[<<k[2], k[1]>>] = d[k]

\* C3: the score table is symmetric after any sequence of update_pmi_dict and
\* align_pairs calls: (a, b) is a key iff (b, a) is, with the same score;
\* and so is the table calc_pmi returned to the last call.
C3_TableSymmetric ==
  /\ IsSymmetric(pmidict)
  /\ IsSymmetric(calc_pmi(call.algn_list, call.scores))

\* C3 witness: align_pairs has accepted an alignment with a column of two
\* different symbols whose marginals differ, on a table that earlier updates
\* filled, and the table holds a score for that column.
C3_Witness ==
  /\ calls >= 2
  /\ call.op = "align_pairs"
  /\ \E i \in 1..Len(call.algn_list) :
       \E j \in 1..Len(call.algn_list[i]) :
         LET c == call.algn_list[i][j]
         IN /\ c[1] # c[2]
            /\ c \in DOMAIN pmidict
            /\ pmidict[c] # 0
            /\ SoundDict(call.algn_list, call.scores, c[1])
                 # SoundDict(call.algn_list, call.scores, c[2])

RECURSIVE KeptPairs(_, _, _)
KeptPairs(list, keep, i) ==
  IF i > Len(list) THEN <<>>
  ELSE (IF i \in keep THEN <<list[i]>> ELSE <<>>)
         \o KeptPairs(list, keep, i + 1)

\* the indices of the pairs whose alignment score, times the margin
\* multiplier, is not below the all-gap threshold on the table given
Surviving(list, table, mult) ==
  {i \in 1..Len(list) :
     ~ (mult * needleman_wunsch(list[i][1][3], list[i][2][3], table).s
          < 100 * AllGapMargin(table, list[i][1][3], list[i][2][3]))}

ObservedPairs(algn_list) ==
  UNION {UNION {{<<algn_list[i][j][1], algn_list[i][j][2]>>,
                 <<algn_list[i][j][2], algn_list[i][j][1]>>} :
                  j \in 1..Len(algn_list[i])} : i \in 1..Len(algn_list)}

\* C6: update_pmi_dict removes no key and leaves every entry whose pair is
\* not among the pairs of the batch with the score it had; an update from a
\* batch without alignments leaves the whole table as it was.
C6_UnobservedUnchanged ==
  call.op # "none" =>
    /\ \A k \in DOMAIN call.pmidict :
         /\ k \in DOMAIN pmidict
         /\ k \notin ObservedPairs(call.algn_list) => pmidict[k] = call.pmidict[k]
    /\ call.algn_list = <<>> => pmidict = call.pmidict

\* C6 witness: an update from a batch with columns, on a table holding a
\* non-zero score for a pair the batch does not mention.
C6_Witness ==
  /\ call.op # "none"
  /\ ObservedPairs(call.algn_list) # {}
  /\ \E k \in DOMAIN call.pmidict :
       k \notin ObservedPairs(call.algn_list) /\ call.pmidict[k] # 0

\* C9: on the empty score table align_pairs keeps every pair of two
\* identical forms.
C9_ColdIdenticalAccepted ==
  (call.op = "align_pairs" /\ call.pmidict = EmptyDict) =>
    \A i \in 1..Len(call.word_pairs) :
      call.word_pairs[i][1][3] = call.word_pairs[i][2][3] =>
        \E j \in 1..Len(wl) : wl[j] = call.word_pairs[i]

\* C5: a decay exponent outside (0.5, 1], an unknown clustering strategy
\* and an unknown input format are each rejected before any input is read,
\* any word pair is aligned or any table update happens; alpha = 0.6 and
\* alpha = 1.0 (with known names) are not rejected.
C5_ConfigRejectedFirst ==
  /\ ( \/ args.alpha <= 500
       \/ args.alpha > 1000
       \/ args.method \notin Methods
       \/ args.reader \notin Readers )
     => (~ input_read /\ aligned = 0 /\ calls = 0)
  /\ (args.alpha \in {600, 1000} /\ args.method \in Methods /\ args.reader \in Readers)
     => pc \notin {"usage_error", "ValueError_alpha", "ValueError_method"}

\* C7: what an invocation of multi_align returns is what the same invocation
\* returns on a tree no earlier invocation has touched.
C7_NoReuseAcrossInvocations ==
  mcall.invocations >= 1 =>
    mcall.ret = multi_align(mcall.similarity_sets, guide_tree,
                            EmptyDict, EmptyDict, mpd).ret

\* the form a group of two triples holds for a language
FormOf(group, language) ==
  IF group[1][1] = language THEN group[1] ELSE group[2]

\* C8: on a tree whose root has two leaf children, for a single group with
\* one form per leaf, multi_align returns the two languages and concepts in
\* the order of the children and the columns the aligner returns for the
\* first child's form against the second child's, from one call of it.
C8_TrivialMultiAlignment ==
  LET children == guide_tree.descendants[guide_tree.root]
      sets == mcall.similarity_sets
  IN ( /\ mcall.invocations >= 1
       /\ Len(children) = 2
       /\ IsLeaf(guide_tree, children[1])
       /\ IsLeaf(guide_tree, children[2])
       /\ Len(sets) = 1
       /\ Len(sets[1]) = 2
       /\ {sets[1][1][1], sets[1][2][1]}
            = {guide_tree.name[children[1]], guide_tree.name[children[2]]} )
     => LET t1 == FormOf(sets[1], guide_tree.name[children[1]])
            t2 == FormOf(sets[1], guide_tree.name[children[2]])
            nw == needleman_wunsch(t1[3], t2[3], mpd)
        IN /\ DOMAIN mcall.ret = {0}
           /\ mcall.ret[0].languages = <<t1[1], t2[1]>>
           /\ mcall.ret[0].concepts = <<t1[2], t2[2]>>
           /\ mcall.ret[0].alignment = nw.alg
           /\ mcall.pairwise_calls = 1

\* the names of the leaves in the subtree of a node
SubtreeLanguages(tree, n) ==
  {tree.name[m] : m \in {Postorder(tree, n)[i] : i \in
                           {k \in 1..Len(Postorder(tree, n)) :
                              IsLeaf(tree, Postorder(tree, n)[k])}}}

Occurrences(seq, x) == Cardinality({i \in 1..Len(seq) : seq[i] = x})

\* C10: after the first invocation on a tree, for every node and every group
\* attached to it, the languages, the concepts and every column have one
\* length: the number of forms of the group whose language names a leaf below
\* the node; each such language occurs as often as the group has forms of it.
C10_FormsRetained ==
  mcall.invocations = 1 =>
    \A n \in DOMAIN node_alignment :
      \A g \in DOMAIN node_alignment[n] :
        LET e == node_alignment[n][g]
            group == mcall.similarity_sets[g + 1]
            below == SubtreeLanguages(guide_tree, n)
            N == Cardinality({i \in 1..Len(group) : group[i][1] \in below})
        IN /\ Len(e.languages) = N
           /\ Len(e.concepts) = N
           /\ \A c \in 1..Len(e.alignment) : Len(e.alignment[c]) = N
           /\ \A language \in below :
                Occurrences(e.languages, language)
                  = Occurrences([i \in 1..Len(group) |-> group[i][1]], language)

\* C10 witness: a first invocation after which the root holds, for a group,
\* three forms, two of them of one language, merged with a gap column, while
\* a leaf of the tree has no form of the group.
C10_Witness ==
  /\ mcall.invocations = 1
  /\ guide_tree.root \in DOMAIN node_alignment
  /\ \E g \in DOMAIN node_alignment[guide_tree.root] :
       LET e == node_alignment[guide_tree.root][g]
       IN /\ Len(e.languages) = 3
          /\ \E i, j \in 1..3 : i # j /\ e.languages[i] = e.languages[j]
          /\ \E c \in 1..Len(e.alignment) : \E r \in 1..3 : e.alignment[c][r] = Gap
          /\ \E language \in SubtreeLanguages(guide_tree, guide_tree.root) :
               Occurrences(e.languages, language) = 0

\* the pairs of the collection the loop has not handed to align_pairs yet
Unscreened == SubSeq(data_pairs, aligned + 1, Len(data_pairs))

\* between passes the collection is survivors of the screened pairs up to
\* idx, then the unscreened pairs; after the loop nothing is unscreened
BatchLoopShape ==
  /\ pc \in {"batch", "loop_end"} =>
       /\ idx <= Len(word_pairs)
       /\ aligned <= Len(data_pairs)
       /\ SubSeq(word_pairs, idx + 1, Len(word_pairs)) = Unscreened
  /\ pc = "loop_end" =>
       /\ aligned = Len(data_pairs)
       /\ idx = Len(word_pairs)

\* one pass of the loop hands align_pairs the next max_batch unscreened pairs
\* (at least one), makes one table update, appends that batch's survivors to
\* the screened part in their order and moves idx past them
BatchPass ==
  (pc = "batch" /\ pc' = "batch") =>
    LET batch == SubSeq(data_pairs, aligned + 1,
                        MinOf(aligned + args.max_batch, Len(data_pairs)))
        keep == Surviving(batch, pmidict, margin)
    IN /\ Len(batch) >= 1
       /\ call'.op = "align_pairs"
       /\ call'.word_pairs = batch
       /\ aligned' = aligned + Len(batch)
       /\ calls' = calls + 1
       /\ idx' = idx + Cardinality(keep)
       /\ word_pairs' = SubSeq(word_pairs, 1, idx) \o KeptPairs(batch, keep, 1)
                          \o SubSeq(data_pairs, aligned' + 1, Len(data_pairs))
       /\ data_pairs' = data_pairs

\* C11: the batch loop ends for every collection and every max_batch >= 1;
\* every pair of the collection is screened once, in a batch of the next
\* max_batch unscreened pairs, with one table update per batch; the collection
\* ends holding the pairs that survived their screening, in their order.
C11_BatchLoop ==
  /\ []BatchLoopShape
  /\ [][BatchPass]_vars
  /\ (pc = "batch" ~> pc = "loop_end")

\* C11 witness: a loop over three pairs with max_batch 2 has ended after two
\* batches on a filled table; the first batch was discarded whole while idx
\* stayed 0, and the pair of the second batch was kept.
C11_Witness ==
  /\ pc = "loop_end"
  /\ args.max_batch = 2
  /\ Len(data_pairs) = 3
  /\ data_pairs[3] \notin {data_pairs[1], data_pairs[2]}
  /\ calls = 3
  /\ word_pairs = <<data_pairs[3]>>

=============================================================================
